---- MODULE Spec2Model ----
(***************************************************************************)
(* Model of cloudcalculator.py: analyze_vm_activity and its two report     *)
(* writers.  Time is counted in half hours from midnight of day 1, so one  *)
(* hour is Hour = 2 units and a window can end in the middle of an hour.   *)
(* A raw hostBillableCores cell is counted in half cores, so that int()    *)
(* has something to truncate.                                              *)
(***************************************************************************)
EXTENDS Integers, Sequences, FiniteSets, TLC

\* ---------------------------------------------------------------- bounds
MaxRecords == 2
MaxTime == 3
MaxCoreHalves == 3

\* ------------------------------------------------------------- constants
\* timedelta(hours=1), in half hours
Hour == 2
\* an unparseable timestamp cell
BadTime == -1
\* a non-numeric (or NaN) hostBillableCores cell
NonNumeric == -1
\* pandas' NaT: min()/max() of an empty datetime column
NaT == -2

Hosts == {"h1", "h2"}
Columns == {"hostName", "startTime", "endTime", "hostBillableCores"}
Strategies == <<"tab", "space", "comma">>

Row(h, s, e, c) ==
    [hostName |-> h, startTime |-> s, endTime |-> e, hostBillableCores |-> c]

SeqsUpTo(S, n) == UNION {[1..k -> S] : k \in 0..n}

\* ---------------------------------------------------------------- inputs
\* Files that vary the timing of the records: every start and end, aligned
\* or not, inverted or not; each record carries one whole core.
TimingRows == {Row(h, s, e, 2) : h \in Hosts, s \in 0..MaxTime, e \in 0..MaxTime}
TimingFiles ==
    {[rows |-> rs, parseable |-> {"tab", "space", "comma"}, missing |-> "none"] :
        rs \in SeqsUpTo(TimingRows, MaxRecords)}

\* Files that vary hosts and core cells over the hour-aligned intervals of
\* a two-hour window.
AlignedTimes == {0, Hour, 2 * Hour}
CoreCells == (0..MaxCoreHalves) \cup {NonNumeric}
BillingRows ==
    {Row(h, s, e, c) : h \in Hosts, s \in AlignedTimes,
                       e \in {t \in AlignedTimes : t > 0}, c \in CoreCells}
BillingFiles ==
    {[rows |-> rs, parseable |-> {"tab", "space", "comma"}, missing |-> "none"] :
        rs \in SeqsUpTo({r \in BillingRows : r.startTime < r.endTime}, MaxRecords)}

\* Files that are damaged: no delimiter parses, a column is absent, a
\* timestamp cell is unparseable.
FaultyRows == {Row("h1", s, e, 2) : s \in {0, Hour, BadTime}, e \in {Hour, BadTime}}
FaultyFiles ==
    {[rows |-> rs, parseable |-> p, missing |-> m] :
        rs \in SeqsUpTo(FaultyRows, 1),
        p \in SUBSET {"tab", "space", "comma"},
        m \in Columns \cup {"none"}}

Files == TimingFiles \cup BillingFiles \cup FaultyFiles

\* ----------------------------------------------------------------- state
VARIABLES
    input,           \* the file at inputfile
    pc,              \* position in analyze_vm_activity
    sep,             \* the delimiter strategy that read the file
    df,              \* the DataFrame's rows
    month_start,
    month_end,
    month_hours,
    hour_idx,        \* index in month_hours of the for loop's hour_start
    active_records,
    activehosts,     \* insertion-ordered mapping, as a sequence of items
    results,
    detailed_csv,    \* <inputfile>_detailed.csv
    summary_csv,     \* <inputfile>_summary.csv
    error,           \* "none", or the error the run ended with
    returned         \* the value returned to the caller

vars == <<input, pc, sep, df, month_start, month_end, month_hours, hour_idx,
          active_records, activehosts, results, detailed_csv, summary_csv,
          error, returned>>

Unwritten == [written |-> FALSE, rows |-> <<>>]

\* ------------------------------------------------------------- operators
\* The first delimiter strategy, in the order tab, space, comma, under
\* which pd.read_csv does not raise; "none" when all three raise.
ReadCsv(file) ==
    LET ok == {i \in 1..Len(Strategies) : Strategies[i] \in file.parseable}
    IN  IF ok = {} THEN "none"
        ELSE Strategies[CHOOSE i \in ok : \A j \in ok : i <= j]

\* Timestamp comparison; any comparison with NaT is False.
Lt(a, b) == a # NaT /\ b # NaT /\ a < b

\* Variant: the largest cell taken for the smallest.
ColumnMinTakesMax(cells) ==
    IF cells = {} THEN NaT ELSE CHOOSE m \in cells : \A x \in cells : m >= x

ColumnMin(cells) ==
    IF cells = {} THEN NaT ELSE CHOOSE m \in cells : \A x \in cells : m <= x

\* Variant: the smallest cell taken for the largest.
ColumnMaxTakesMin(cells) ==
    IF cells = {} THEN NaT ELSE CHOOSE m \in cells : \A x \in cells : m <= x

ColumnMax(cells) ==
    IF cells = {} THEN NaT ELSE CHOOSE m \in cells : \A x \in cells : m >= x

\* Variant: the loop runs only while a whole hour fits before the end.
RECURSIVE MonthHoursWhole(_, _)
MonthHoursWhole(current_hour, end) ==
    IF current_hour # NaT /\ end # NaT /\ current_hour + Hour <= end
    THEN <<current_hour>> \o MonthHoursWhole(current_hour + Hour, end)
    ELSE <<>>

\* Variant: the loop condition is <= instead of <.
RECURSIVE MonthHoursInclusive(_, _)
MonthHoursInclusive(current_hour, end) ==
    IF current_hour # NaT /\ end # NaT /\ current_hour <= end
    THEN <<current_hour>> \o MonthHoursInclusive(current_hour + Hour, end)
    ELSE <<>>

\* Variant: the first hour is appended before the condition is tested.
RECURSIVE MonthHoursDoWhile(_, _)
MonthHoursDoWhile(current_hour, end) ==
    IF current_hour = NaT THEN <<>>
    ELSE <<current_hour>> \o
         (IF Lt(current_hour + Hour, end)
          THEN MonthHoursDoWhile(current_hour + Hour, end) ELSE <<>>)

\* The while loop that fills month_hours.
RECURSIVE MonthHours(_, _)
MonthHours(current_hour, end) ==
    IF Lt(current_hour, end)
    THEN <<current_hour>> \o MonthHours(current_hour + Hour, end)
    ELSE <<>>

\* Variant: closed-interval overlap, <= and >=.
IsActiveClosed(r, hour_start) ==
    LET hour_end == hour_start + Hour
    IN  r.startTime <= hour_end /\ r.endTime >= hour_start

\* (df['startTime'] < hour_end) & (df['endTime'] > hour_start)
IsActive(r, hour_start) ==
    LET hour_end == hour_start + Hour
    IN  r.startTime < hour_end /\ r.endTime > hour_start

\* Variant: no deduplication, every active record is kept.
DropDuplicatesKeepsAll(recs) == recs

\* drop_duplicates(subset=['hostName']), keep='first'
DropDuplicates(recs) ==
    LET first(i) == \A j \in 1..(i - 1) : recs[j].hostName # recs[i].hostName
        RECURSIVE keep(_)
        keep(i) == IF i > Len(recs) THEN <<>>
                   ELSE IF first(i) THEN <<recs[i]>> \o keep(i + 1)
                   ELSE keep(i + 1)
    IN  keep(1)

\* int() of a numeric cell: truncation toward zero (cells are half cores)
IntCores(c) == IF c >= 0 THEN c \div 2 ELSE -((-c) \div 2)

\* activehosts[hostname] += hostBillableCores on a defaultdict(float)
AddCores(ah, hostname, cores) ==
    IF \E i \in 1..Len(ah) : ah[i].hostname = hostname
    THEN [i \in 1..Len(ah) |->
            IF ah[i].hostname = hostname
            THEN [ah[i] EXCEPT !.hostBillableCores = @ + cores]
            ELSE ah[i]]
    ELSE Append(ah, [hostname |-> hostname, hostBillableCores |-> cores])

\* The iterrows loop over the first n records.
RECURSIVE GroupByHostname(_, _)
GroupByHostname(recs, n) ==
    IF n = 0 THEN <<>>
    ELSE AddCores(GroupByHostname(recs, n - 1),
                  recs[n].hostName, IntCores(recs[n].hostBillableCores))

\* Variant: the total counts one core per host.
SumCoresCountsHosts(ah) == Len(ah)

RECURSIVE SumCores(_)
SumCores(ah) ==
    IF ah = <<>> THEN 0 ELSE ah[1].hostBillableCores + SumCores(Tail(ah))

\* strftime('%Y-%m-%d %H:00:00 UTC'): the minutes are not printed
FormatHour(t) == t - (t % Hour)
DayOfMonth(t) == 1 + (t \div (24 * Hour))
HourOfDay(t) == (t \div Hour) % 24

HourResult(hour_start, ah) ==
    [hour |-> FormatHour(hour_start),
     day_of_month |-> DayOfMonth(hour_start),
     hour_of_day |-> HourOfDay(hour_start),
     total_hostnames |-> Len(ah),
     total_hostBillableCores |-> SumCores(ah),
     hostnames |-> ah]

RECURSIVE DetailedRows(_)
DetailedRows(res) ==
    IF res = <<>> THEN <<>>
    ELSE [i \in 1..Len(res[1].hostnames) |->
            [hour |-> res[1].hour,
             day_of_month |-> res[1].day_of_month,
             hour_of_day |-> res[1].hour_of_day,
             hostname |-> res[1].hostnames[i].hostname,
             hostBillableCores |-> res[1].hostnames[i].hostBillableCores]]
         \o DetailedRows(Tail(res))

SummaryRows(res) ==
    [i \in 1..Len(res) |->
        [hour |-> res[i].hour,
         day_of_month |-> res[i].day_of_month,
         hour_of_day |-> res[i].hour_of_day,
         total_hosts |-> res[i].total_hostnames,
         total_hostBillableCores |-> res[i].total_hostBillableCores]]

\* ------------------------------------------------------------------ Init
Init ==
    /\ input \in Files
    /\ pc = "load"
    /\ sep = "none"
    /\ df = <<>>
    /\ month_start = NaT
    /\ month_end = NaT
    /\ month_hours = <<>>
    /\ hour_idx = 0
    /\ active_records = <<>>
    /\ activehosts = <<>>
    /\ results = <<>>
    /\ detailed_csv = Unwritten
    /\ summary_csv = Unwritten
    /\ error = "none"
    /\ returned = <<>>

\* --------------------------------------------------------------- actions
\* Lines 24-35, all three reads raise: print the error and return [].
LoadFails ==
    /\ pc = "load"
    /\ ReadCsv(input) = "none"
    /\ error' = "read"
    /\ returned' = <<>>
    /\ pc' = "done"
    /\ UNCHANGED <<input, sep, df, month_start, month_end, month_hours, hour_idx,
                   active_records, activehosts, results, detailed_csv, summary_csv>>

\* Lines 24-37, one of the reads returns a DataFrame.
Load ==
    /\ pc = "load"
    /\ ReadCsv(input) # "none"
    /\ sep' = ReadCsv(input)
    /\ df' = input.rows
    /\ pc' = "convert"
    /\ UNCHANGED <<input, month_start, month_end, month_hours, hour_idx,
                   active_records, activehosts, results, detailed_csv, summary_csv,
                   error, returned>>

\* The exception lines 40-41 raise, "none" when they raise nothing.
ConvertError ==
    IF input.missing = "startTime" THEN "KeyError"
    ELSE IF \E i \in 1..Len(df) : df[i].startTime = BadTime THEN "ParserError"
    ELSE IF input.missing = "endTime" THEN "KeyError"
    ELSE IF \E i \in 1..Len(df) : df[i].endTime = BadTime THEN "ParserError"
    ELSE "none"

Raise(e) ==
    /\ error' = e
    /\ pc' = "raised"

\* Lines 40-41: pd.to_datetime on both columns.
ConvertRaises ==
    /\ pc = "convert"
    /\ ConvertError # "none"
    /\ Raise(ConvertError)
    /\ UNCHANGED <<input, sep, df, month_start, month_end, month_hours, hour_idx,
                   active_records, activehosts, results, detailed_csv, summary_csv,
                   returned>>

Convert ==
    /\ pc = "convert"
    /\ ConvertError = "none"
    /\ pc' = "window"
    /\ UNCHANGED <<input, sep, df, month_start, month_end, month_hours, hour_idx,
                   active_records, activehosts, results, detailed_csv, summary_csv,
                   error, returned>>

\* Lines 44-45.
Window ==
    /\ pc = "window"
    /\ month_start' = ColumnMin({df[i].startTime : i \in 1..Len(df)})
    /\ month_end' = ColumnMax({df[i].endTime : i \in 1..Len(df)})
    /\ pc' = "enumerate"
    /\ UNCHANGED <<input, sep, df, month_hours, hour_idx, active_records,
                   activehosts, results, detailed_csv, summary_csv, error, returned>>

\* Lines 49-58; the for loop of line 61 starts, or is skipped.
Enumerate ==
    /\ pc = "enumerate"
    /\ month_hours' = MonthHours(month_start, month_end)
    /\ hour_idx' = 1
    /\ pc' = IF month_hours' = <<>> THEN "save_detailed" ELSE "filter"
    /\ UNCHANGED <<input, sep, df, month_start, month_end, active_records,
                   activehosts, results, detailed_csv, summary_csv, error, returned>>

\* Lines 62-68.
Filter ==
    /\ pc = "filter"
    /\ active_records' =
          SelectSeq(df, LAMBDA r : IsActive(r, month_hours[hour_idx]))
    /\ pc' = "aggregate"
    /\ UNCHANGED <<input, sep, df, month_start, month_end, month_hours, hour_idx,
                   activehosts, results, detailed_csv, summary_csv, error, returned>>

\* Line 71 raises: the subset column is absent from a non-empty frame.
DedupRaises ==
    /\ pc = "aggregate"
    /\ input.missing = "hostName"
    /\ active_records # <<>>
    /\ Raise("KeyError")
    /\ UNCHANGED <<input, sep, df, month_start, month_end, month_hours, hour_idx,
                   active_records, activehosts, results, detailed_csv, summary_csv,
                   returned>>

DedupOk == input.missing # "hostName" \/ active_records = <<>>

\* The records of the iterrows loop whose line 77 raises.
BadCores(unique) ==
    {i \in 1..Len(unique) :
        \/ input.missing = "hostBillableCores"
        \/ unique[i].hostBillableCores = NonNumeric}

\* Lines 71-78, line 77 raises at the first record it cannot coerce.
AggregateRaises ==
    /\ pc = "aggregate"
    /\ DedupOk
    /\ LET unique == DropDuplicates(active_records)
           bad == BadCores(unique)
       IN  /\ bad # {}
           /\ active_records' = unique
           /\ activehosts' =
                 GroupByHostname(unique, (CHOOSE i \in bad : \A j \in bad : i <= j) - 1)
    /\ Raise(IF input.missing = "hostBillableCores" THEN "KeyError" ELSE "ValueError")
    /\ UNCHANGED <<input, sep, df, month_start, month_end, month_hours, hour_idx,
                   results, detailed_csv, summary_csv, returned>>

\* Variant: the detailed report is rewritten at the end of every iteration.
AggregateSavesEachHour ==
    /\ pc = "aggregate"
    /\ DedupOk
    /\ LET unique == DropDuplicates(active_records)
       IN  /\ BadCores(unique) = {}
           /\ active_records' = unique
           /\ activehosts' = GroupByHostname(unique, Len(unique))
    /\ results' = Append(results, HourResult(month_hours[hour_idx], activehosts'))
    /\ detailed_csv' = [written |-> TRUE, rows |-> DetailedRows(results')]
    /\ hour_idx' = hour_idx + 1
    /\ pc' = IF hour_idx < Len(month_hours) THEN "filter" ELSE "save_detailed"
    /\ UNCHANGED <<input, sep, df, month_start, month_end, month_hours,
                   summary_csv, error, returned>>

\* Lines 71-97: one whole iteration of the for loop after the filter.
Aggregate ==
    /\ pc = "aggregate"
    /\ DedupOk
    /\ LET unique == DropDuplicates(active_records)
       IN  /\ BadCores(unique) = {}
           /\ active_records' = unique
           /\ activehosts' = GroupByHostname(unique, Len(unique))
    /\ results' = Append(results, HourResult(month_hours[hour_idx], activehosts'))
    /\ hour_idx' = hour_idx + 1
    /\ pc' = IF hour_idx < Len(month_hours) THEN "filter" ELSE "save_detailed"
    /\ UNCHANGED <<input, sep, df, month_start, month_end, month_hours,
                   detailed_csv, summary_csv, error, returned>>

\* Lines 102, 125-140.
save_detailed_csv ==
    /\ pc = "save_detailed"
    /\ detailed_csv' = [written |-> TRUE, rows |-> DetailedRows(results)]
    /\ pc' = "save_summary"
    /\ UNCHANGED <<input, sep, df, month_start, month_end, month_hours, hour_idx,
                   active_records, activehosts, results, summary_csv, error, returned>>

\* Variant: no summary file is written when there is no result.
SaveSummarySkipsEmpty ==
    /\ pc = "save_summary"
    /\ summary_csv' = IF results = <<>> THEN summary_csv
                      ELSE [written |-> TRUE, rows |-> SummaryRows(results)]
    /\ returned' = results
    /\ pc' = "done"
    /\ UNCHANGED <<input, sep, df, month_start, month_end, month_hours, hour_idx,
                   active_records, activehosts, results, detailed_csv, error>>

\* Lines 103-105, 108-122.
save_summary_csv ==
    /\ pc = "save_summary"
    /\ summary_csv' = [written |-> TRUE, rows |-> SummaryRows(results)]
    /\ returned' = results
    /\ pc' = "done"
    /\ UNCHANGED <<input, sep, df, month_start, month_end, month_hours, hour_idx,
                   active_records, activehosts, results, detailed_csv, error>>

Next ==
    \/ LoadFails
    \/ Load
    \/ ConvertRaises
    \/ Convert
    \/ Window
    \/ Enumerate
    \/ Filter
    \/ DedupRaises
    \/ AggregateRaises
    \/ Aggregate
    \/ save_detailed_csv
    \/ save_summary_csv

Spec == Init /\ [][Next]_vars

\* ------------------------------------------------- vocabulary of claims
\* Lines 44-45 have run.
WindowComputed == pc = "enumerate" \/ hour_idx >= 1
\* Lines 49-53 have run.
HoursEnumerated == hour_idx >= 1
\* The run returned from line 105.
Completed == pc = "done" /\ error = "none"

\* Record i and bucket k overlap as open intervals.
Overlaps(i, k) ==
    /\ df[i].startTime < month_hours[k] + Hour
    /\ df[i].endTime > month_hours[k]

\* The records of host h that overlap bucket k, by input position.
ActiveOf(h, k) == {i \in 1..Len(df) : df[i].hostName = h /\ Overlaps(i, k)}
ActiveHostsOf(k) == {h \in Hosts : ActiveOf(h, k) # {}}
FirstOf(S) == CHOOSE i \in S : \A j \in S : i <= j
EntriesOf(h, k) ==
    {j \in 1..Len(results[k].hostnames) : results[k].hostnames[j].hostname = h}

\* The whole cores in a cell of c half cores.
WholeCores(c) == CHOOSE n \in 0..c : 2 * n <= c /\ c < 2 * n + 2

RECURSIVE SumFirstCores(_, _)
SumFirstCores(H, k) ==
    IF H = {} THEN 0
    ELSE LET h == CHOOSE x \in H : TRUE
         IN  WholeCores(df[FirstOf(ActiveOf(h, k))].hostBillableCores)
             + SumFirstCores(H \ {h}, k)

RECURSIVE SumEntries(_, _)
SumEntries(k, n) ==
    IF n = 0 THEN 0
    ELSE results[k].hostnames[n].hostBillableCores + SumEntries(k, n - 1)

\* ---------------------------------------------------------------- claims
\* C1: in every hour bucket a record is selected as active if and only if
\* its startTime is before the bucket's end and its endTime is after the
\* bucket's start; a record that ends at hourStart or starts at hourEnd is
\* not selected, and the hosts reported for a finished bucket are exactly
\* the hosts of the records that overlap it.
C1_ActiveIffOverlap ==
    /\ pc = "aggregate" =>
          LET hourStart == month_hours[hour_idx]
              hourEnd == hourStart + Hour
              sel == {i \in 1..Len(df) :
                        df[i].startTime < hourEnd /\ df[i].endTime > hourStart}
          IN  /\ Len(active_records) = Cardinality(sel)
              /\ \A i \in 1..Len(df) :
                    (\E j \in 1..Len(active_records) : active_records[j] = df[i])
                        <=> (\E i2 \in sel : df[i2] = df[i])
              /\ \A j \in 1..Len(active_records) :
                    /\ active_records[j].endTime # hourStart
                    /\ active_records[j].startTime # hourEnd
    /\ \A k \in 1..Len(results) :
          {results[k].hostnames[j].hostname : j \in 1..Len(results[k].hostnames)}
             = ActiveHostsOf(k)

\* A completed run of two buckets in which one host's record ends exactly
\* where the second bucket starts and the other host's record starts
\* exactly where the first bucket ends.
C1_Witness ==
    /\ Completed
    /\ Len(results) = 2
    /\ \E i, j \in 1..Len(df) :
          /\ df[i].hostName # df[j].hostName
          /\ df[i].endTime = month_hours[2]
          /\ df[j].startTime = month_hours[1] + Hour
          /\ EntriesOf(df[i].hostName, 2) = {}
          /\ EntriesOf(df[j].hostName, 1) = {}
          /\ EntriesOf(df[i].hostName, 1) # {}
          /\ EntriesOf(df[j].hostName, 2) # {}

\* C2 as stated: for a non-empty record set the number of hour buckets is
\* floor((monthEnd - monthStart) / 1 hour).
C2_HourCountIsFloor ==
    (HoursEnumerated /\ Len(df) > 0) =>
        Len(month_hours) = (month_end - month_start) \div Hour

\* C2 amended: for a non-empty record set the number of hour buckets is
\* ceil((monthEnd - monthStart) / 1 hour), zero when monthEnd <= monthStart;
\* the last bucket starts before monthEnd and ends at or after it, so a
\* final fractional hour is covered by a bucket that reaches past monthEnd.
C2_HourCountIsCeiling ==
    (HoursEnumerated /\ Len(df) > 0) =>
        /\ Len(month_hours) =
              IF month_end > month_start
              THEN (month_end - month_start + Hour - 1) \div Hour
              ELSE 0
        /\ month_hours # <<>> =>
              /\ month_hours[Len(month_hours)] < month_end
              /\ month_end <= month_hours[Len(month_hours)] + Hour

\* Two buckets over a window that is not a whole number of hours.
C2_Witness ==
    /\ Completed
    /\ Len(df) > 0
    /\ (month_end - month_start) % Hour # 0
    /\ Len(month_hours) = 2
    /\ Len(results) = 2
    /\ month_hours[2] + Hour > month_end

\* C3: for a non-empty record set monthStart is the least startTime and
\* monthEnd the greatest endTime; the first bucket starts at monthStart,
\* each next bucket starts one hour after the one before, every bucket
\* start lies in [monthStart, monthEnd), and the results follow the buckets
\* in that order, one per bucket.
C3_WindowAndOrder ==
    /\ (WindowComputed /\ Len(df) > 0) =>
          /\ \E i \in 1..Len(df) : df[i].startTime = month_start
          /\ \A i \in 1..Len(df) : month_start <= df[i].startTime
          /\ \E i \in 1..Len(df) : df[i].endTime = month_end
          /\ \A i \in 1..Len(df) : df[i].endTime <= month_end
    /\ (HoursEnumerated /\ Len(df) > 0) =>
          /\ month_hours # <<>> => month_hours[1] = month_start
          /\ \A k \in 1..(Len(month_hours) - 1) :
                month_hours[k + 1] = month_hours[k] + Hour
          /\ \A k \in 1..Len(month_hours) :
                month_start <= month_hours[k] /\ month_hours[k] < month_end
          /\ Len(results) <= Len(month_hours)
          /\ \A k \in 1..Len(results) :
                /\ results[k].hour <= month_hours[k]
                /\ month_hours[k] < results[k].hour + Hour
          /\ \A k \in 1..(Len(results) - 1) :
                results[k + 1].hour = results[k].hour + Hour
    /\ Completed => Len(returned) = Len(month_hours)

\* Two records, neither of which sets both ends of the window, and two
\* buckets returned.
C3_Witness ==
    /\ Completed
    /\ Len(df) = 2
    /\ df[1].startTime > month_start
    /\ df[2].endTime < month_end
    /\ Len(returned) = 2

\* C4: when two or more records of one host are active in a bucket, the
\* bucket's result holds exactly one entry for that host, with the whole
\* cores of the first of those records in input order, not their sum.
C4_DedupKeepsFirst ==
    \A k \in 1..Len(results) : \A h \in Hosts :
        ActiveOf(h, k) # {} =>
            /\ Cardinality(EntriesOf(h, k)) = 1
            /\ \A j \in EntriesOf(h, k) :
                  results[k].hostnames[j].hostBillableCores =
                      WholeCores(df[FirstOf(ActiveOf(h, k))].hostBillableCores)

\* A bucket with two active records of one host, each of at least one
\* whole core, the first of which sets the reported cores.
C4_Witness ==
    /\ Completed
    /\ \E k \in 1..Len(results) : \E h \in Hosts :
          /\ Cardinality(ActiveOf(h, k)) >= 2
          /\ \A i \in ActiveOf(h, k) :
                df[i].hostBillableCores >= 2 /\ df[i].hostBillableCores % 2 = 1
          /\ \E j \in EntriesOf(h, k) :
                results[k].hostnames[j].hostBillableCores = 1

\* C5: for every bucket total_hostBillableCores is the sum of the whole
\* cores of the deduplicated active records, total_hostnames is the number
\* of distinct active hosts, and they are the sum and the count of the
\* bucket's hostname details (0 and 0 when no record is active).
C5_Conservation ==
    \A k \in 1..Len(results) :
        /\ results[k].total_hostBillableCores = SumFirstCores(ActiveHostsOf(k), k)
        /\ results[k].total_hostnames = Cardinality(ActiveHostsOf(k))
        /\ results[k].total_hostBillableCores =
              SumEntries(k, Len(results[k].hostnames))
        /\ results[k].total_hostnames = Len(results[k].hostnames)
        /\ ActiveHostsOf(k) = {} =>
              /\ results[k].total_hostBillableCores = 0
              /\ results[k].total_hostnames = 0

\* A bucket with two hosts whose cores differ and sum to more than the
\* number of hosts, next to a bucket of the same run with fewer hosts.
C5_Witness ==
    /\ Completed
    /\ \E k \in 1..Len(results) :
          /\ results[k].total_hostnames = 2
          /\ results[k].total_hostBillableCores = 1
    /\ \E k \in 1..Len(results) : results[k].total_hostnames = 1

\* C6: when the loaded table has zero records (and its timestamp columns
\* exist), the run raises nothing, produces no result, and on return has
\* returned the empty sequence and written both reports without a row.
C6_EmptyInput ==
    (pc # "load" /\ sep # "none" /\ Len(df) = 0
        /\ input.missing \notin {"startTime", "endTime"}) =>
        /\ error = "none"
        /\ pc # "raised"
        /\ results = <<>>
        /\ pc = "done" =>
              /\ returned = <<>>
              /\ detailed_csv = [written |-> TRUE, rows |-> <<>>]
              /\ summary_csv = [written |-> TRUE, rows |-> <<>>]

\* The run on an empty table has returned.
C6_Witness ==
    /\ pc = "done"
    /\ sep # "none"
    /\ Len(df) = 0
    /\ returned = <<>>
    /\ detailed_csv.written
    /\ summary_csv.written

\* C7 as stated: a run on zero records, on exactly one record, or on a
\* window of zero width returns the empty sequence.
C7_OneRecordIsEmpty ==
    (Completed /\ (Len(df) <= 1 \/ month_start = month_end)) =>
        returned = <<>>

\* C7 amended: a run on zero records, or on a window of zero width
\* (monthStart = monthEnd, as with a single record of zero length),
\* enumerates no hour, raises nothing and returns the empty sequence.
C7_DegenerateWindow ==
    (WindowComputed /\ (Len(df) = 0 \/ month_start = month_end)) =>
        /\ error = "none"
        /\ pc # "raised"
        /\ month_hours = <<>>
        /\ results = <<>>
        /\ pc = "done" =>
              /\ returned = <<>>
              /\ detailed_csv.written
              /\ summary_csv.written

\* A run on records that all collapse to one instant has returned.
C7_Witness ==
    /\ pc = "done"
    /\ Len(df) > 0
    /\ month_start = month_end
    /\ returned = <<>>

\* C8 as stated: monthStart <= monthEnd for every non-empty record set,
\* also when records have startTime >= endTime.
C8_WindowOrdered ==
    (WindowComputed /\ Len(df) > 0) => month_start <= month_end

\* C8 amended: monthStart <= monthEnd for every record set in which at
\* least one record has startTime <= endTime.
C8_WindowOrderedGivenOneOrdered ==
    (WindowComputed /\ \E i \in 1..Len(df) : df[i].startTime <= df[i].endTime) =>
        month_start <= month_end

\* A window computed from one inverted and one ordered record.
C8_Witness ==
    /\ WindowComputed
    /\ \E i \in 1..Len(df) : df[i].startTime > df[i].endTime
    /\ \E i \in 1..Len(df) : df[i].startTime < df[i].endTime
    /\ month_start < month_end

\* C9: in a run that ended with an error (no delimiter parses, a column is
\* absent, a timestamp is unparseable, a core count is not numeric)
\* neither report has been written, whatever was aggregated before.
C9_NoOutputOnError ==
    (error # "none" \/ pc = "raised") =>
        /\ ~detailed_csv.written
        /\ ~summary_csv.written
        /\ detailed_csv.rows = <<>>
        /\ summary_csv.rows = <<>>

\* A run that raised on a core count after it had aggregated an hour.
C9_Witness ==
    /\ pc = "raised"
    /\ error = "ValueError"
    /\ Len(results) >= 1
    /\ results[1].total_hostnames >= 1

\* C10: in a completed run every record with startTime < endTime overlaps
\* a produced bucket and its host is in that bucket's hostname details,
\* also when the record lies after the last whole hour of the window.
C10_Coverage ==
    Completed =>
        \A i \in 1..Len(df) :
            df[i].startTime < df[i].endTime =>
                \E k \in 1..Len(results) :
                    /\ Overlaps(i, k)
                    /\ EntriesOf(df[i].hostName, k) # {}

\* A completed run with a record that starts after the last whole hour of
\* a window that is not a whole number of hours.
C10_Witness ==
    /\ Completed
    /\ (month_end - month_start) % Hour # 0
    /\ \E i \in 1..Len(df) :
          /\ df[i].startTime < df[i].endTime
          /\ df[i].startTime >=
                month_start + Hour * ((month_end - month_start) \div Hour)
          /\ \E k \in 1..Len(results) : EntriesOf(df[i].hostName, k) # {}

TypeOK ==
    /\ pc \in {"load", "convert", "window", "enumerate", "filter", "aggregate",
               "save_detailed", "save_summary", "done", "raised"}
    /\ error \in {"none", "read", "KeyError", "ParserError", "ValueError"}
====
